---- MODULE Spec2Model ----
(***************************************************************************)
(* Partition refinement with a splitting tree (partition.go).              *)
(*                                                                         *)
(* The state is the Partition struct (indices, partition, blocks, the      *)
(* buffered channels available, splitgroups and count), the arguments of   *)
(* New and Refine, and the position of every goroutine: the main goroutine *)
(* (pc), the ring walker of blockIndices in a pass of New (walker), and    *)
(* the per-block goroutines of New and of Refine's clean-up (gor).         *)
(* A step is one channel operation together with the local code that       *)
(* follows it up to the next channel operation.                            *)
(***************************************************************************)
EXTENDS Integers, Sequences, FiniteSets, TLC

\* Bounds of the explored inputs.
MaxN == 4          \* n ranges over 1..MaxN
MaxK == 2          \* number of class functions handed to New: 1..MaxK
MaxM == 2          \* number of functions handed to Refine: 0..MaxM
MaxCells == 9      \* n * (k + m) <= MaxCells keeps the input tables small
degree == 2        \* the degree argument of New

VARIABLES
    n,            \* argument n of New
    classes,      \* the class functions of New, classes[j][v], j in 1..k
    functions,    \* the functions of Refine, functions[f][v], f in 1..m
                  \* (empty until Refine is called)
    isWitness,    \* argument isWitness of New
    indices,      \* Partition.indices
    partition,    \* Partition.partition, slots 0..n-1 of [e, b]
    blocks,       \* Partition.blocks, handles 0..2n-2
    available,    \* Partition.available (FIFO channel contents)
    splitgroups,  \* Partition.splitgroups (FIFO channel contents)
    count,        \* the integer held in Partition.count
    closed,       \* TRUE once Refine has closed available and splitgroups
    pc,           \* position of the main goroutine
    class,        \* loop variable of New's pass (0-based)
    walker,       \* the goroutine of blockIndices(0, 0) in New
    gor,          \* the per-block goroutines, by block handle
    rf,           \* the locals of Refine's loop
    call,         \* number of calls of Refine started
    after1,       \* partition and blocks as the first Refine left them
    inner         \* the handles makeParent has stored a parent block at, in order

vars == <<n, classes, functions, isWitness, indices, partition, blocks,
          available, splitgroups, count, closed, pc, class, walker, gor,
          rf, call, after1, inner>>

inputs == <<n, classes, isWitness>>

Handles == 0 .. (2 * n - 2)
Slots == 0 .. (n - 1)

ZeroBlock == [end |-> 0, next |-> 0, parent |-> 0, depth |-> 0, witness |-> <<>>]

NoGoroutines == [b \in {} |-> 0]

\* Capacities of the buffered channels splitgroups and available.
QueueCap == n
PoolCap == 2 * n - 1

\* Range: (begin, end) of block b in the block array bl.
Range(bl, b) ==
    <<IF bl[b].next # 0 THEN bl[bl[b].next].end ELSE 0, bl[b].end>>

\* Len counted one too high: a block of one element is taken to have two.
BlockLenPlusOne(bl, b) == Range(bl, b)[2] - Range(bl, b)[1] + 1

\* Len: the number of elements of block b.
BlockLen(bl, b) == Range(bl, b)[2] - Range(bl, b)[1]

\* No block is taken for a singleton.
IsSingletonNever(bl, b) == FALSE

\* Only an empty block is passed over: the last element of a block is
\* moved like any other.
IsSingletonAtZero(bl, b) == BlockLen(bl, b) = 0

\* Refine: if p.Len(predecessor.b) == 1 { continue }.
IsSingleton(bl, b) == BlockLen(bl, b) = 1

\* blockIndices(from, to): the handles the walker sends, in order.  fuel
\* bounds the walk; WalkHangs tells a ring that never reaches to or 0.
RECURSIVE WalkFrom(_, _, _, _)
WalkFrom(bl, current, to, fuel) ==
    IF fuel = 0 THEN <<>>
    ELSE LET next == bl[current].next
         IN  IF next = to \/ next = 0 THEN <<current>>
             ELSE <<current>> \o WalkFrom(bl, next, to, fuel - 1)

blockIndices(bl, from, to) == WalkFrom(bl, from, to, 2 * n)

WalkHangs(bl, from, to) ==
    LET w == blockIndices(bl, from, to)
    IN  Len(w) = 2 * n /\ bl[w[Len(w)]].next # to /\ bl[w[Len(w)]].next # 0

\* The increment of insertAfter is lost.
countLost(c) == c

\* insertAfter: count := <-p.count; p.count <- count + 1.
countInserted(c) == c + 1

\* insertAfter that starts the new block at depth 0, not at the depth of b.
insertAfterShallow(bl, b, i) ==
    LET block == [end |-> Range(bl, b)[1], next |-> bl[b].next, parent |-> 0,
                  depth |-> 0, witness |-> <<>>]
    IN  [[bl EXCEPT ![i] = block] EXCEPT ![b].next = i]

\* insertAfter that puts the new block behind the successor of b, where the
\* walk over the ring has yet to come.
insertAfterNext(bl, b, i) ==
    LET a == IF bl[b].next # 0 THEN bl[b].next ELSE b
        block == [end |-> Range(bl, a)[1], next |-> bl[a].next, parent |-> 0,
                  depth |-> bl[a].depth, witness |-> <<>>]
    IN  [[bl EXCEPT ![i] = block] EXCEPT ![a].next = i]

\* insertAfter(b, i) on the block array (the count is raised by the caller).
insertAfter(bl, b, i) ==
    LET block == [end |-> Range(bl, b)[1], next |-> bl[b].next, parent |-> 0,
                  depth |-> bl[b].depth, witness |-> <<>>]
    IN  [[bl EXCEPT ![i] = block] EXCEPT ![b].next = i]

\* The write loop of split leaves the block tag of the slot as it was.
PlaceStatesUntagged(part, states, sb, pos) ==
    [i \in DOMAIN part |->
        IF pos - Len(states) <= i /\ i < pos
        THEN [e |-> states[pos - i], b |-> part[i].b]
        ELSE part[i]]

\* The write loop of split started one slot too low.
PlaceStatesLow(part, states, sb, pos) ==
    [i \in DOMAIN part |->
        IF pos - 1 - Len(states) <= i /\ i < pos - 1
        THEN [e |-> states[pos - 1 - i], b |-> sb]
        ELSE part[i]]

\* The write loop of split tags the slots it writes for a handle above 1
\* with handle 0.
PlaceStatesZero(part, states, sb, pos) ==
    [i \in DOMAIN part |->
        IF pos - Len(states) <= i /\ i < pos
        THEN [e |-> states[pos - i], b |-> IF sb <= 1 THEN sb ELSE 0]
        ELSE part[i]]

\* The write loop of split: states go to slots pos-1, pos-2, ... tagged sb.
PlaceStates(part, states, sb, pos) ==
    [i \in DOMAIN part |->
        IF pos - Len(states) <= i /\ i < pos
        THEN [e |-> states[pos - i], b |-> sb]
        ELSE part[i]]

\* The index loop of split that records each value one slot too low.
IndexStatesLow(idx, states, pos) ==
    [v \in DOMAIN idx |->
        IF \E t \in 1 .. Len(states) : states[t] = v
        THEN LET slot == pos - (CHOOSE t \in 1 .. Len(states) : states[t] = v)
             IN  IF slot > 0 THEN slot - 1 ELSE 0
        ELSE idx[v]]

\* The index loop of split: p.indices[st] = pos for each value written.
IndexStates(idx, states, pos) ==
    [v \in DOMAIN idx |->
        IF \E t \in 1 .. Len(states) : states[t] = v
        THEN pos - (CHOOSE t \in 1 .. Len(states) : states[t] = v)
        ELSE idx[v]]

\* A slice of subblocks with one slot more than degree.
SubblockSlotsWide == degree + 1

\* split: the length of subblocks, make([][]int, degree).
SubblockSlots == degree

\* split: subblocks[cls] with a class that is no index of subblocks, for
\* some element of slots begin..end-1, is a run-time panic.
IndexPanics(part, f, begin, end) ==
    \E i \in begin .. (end - 1) : f[part[i].e] \notin 0 .. (SubblockSlots - 1)

\* subblocks that take the parity of an element for its class.
SubblocksByParity(part, f, begin, end) ==
    LET elems == [i \in 1 .. (end - begin) |-> part[begin + i - 1].e]
    IN  [c \in 0 .. (SubblockSlots - 1) |->
            SelectSeq(elems, LAMBDA e : e % degree = c)]

\* subblocks that file the elements of class c under degree - 1 - c.
SubblocksReversed(part, f, begin, end) ==
    LET elems == [i \in 1 .. (end - begin) |-> part[begin + i - 1].e]
    IN  [c \in 0 .. (SubblockSlots - 1) |->
            SelectSeq(elems, LAMBDA e : f[e] = degree - 1 - c)]

\* subblocks of split: for each class the elements of slots begin..end-1.
Subblocks(part, f, begin, end) ==
    LET elems == [i \in 1 .. (end - begin) |-> part[begin + i - 1].e]
    IN  [c \in 0 .. (SubblockSlots - 1) |->
            SelectSeq(elems, LAMBDA e : f[e] = c)]

\* The lowest class >= c with elements, or degree when there is none.
NextClass(sub, c) ==
    IF \E d \in c .. (degree - 1) : Len(sub[d]) > 0
    THEN CHOOSE d \in c .. (degree - 1) :
            Len(sub[d]) > 0 /\ \A x \in c .. (d - 1) : Len(sub[x]) = 0
    ELSE degree

\* The loop of makeParent over the children: the splitters and the index of
\* the largest one (the first child of maximal length).
RECURSIVE LargestFrom(_, _, _, _, _)
LargestFrom(lens, i, largest, length, dummy) ==
    IF i > Len(lens) THEN largest
    ELSE IF length < lens[i]
         THEN LargestFrom(lens, i + 1, i - 1, lens[i], dummy)
         ELSE LargestFrom(lens, i + 1, largest, length, dummy)

\* The index of the first child of minimal length.
Shortest(lens) ==
    IF Len(lens) = 0 THEN 0
    ELSE (CHOOSE i \in 1 .. Len(lens) :
             /\ \A j \in 1 .. Len(lens) : lens[i] <= lens[j]
             /\ \A j \in 1 .. (i - 1) : lens[j] > lens[i]) - 1

Largest(lens) == LargestFrom(lens, 1, 0, 0, 0)

RemoveAt(s, i) == [x \in 1 .. (Len(s) - 1) |-> IF x < i THEN s[x] ELSE s[x + 1]]

\* makeParent whose loop over the children stops before the last one.
makeParentShort(bl, first, next, witness, index) ==
    LET every == blockIndices(bl, first, next)
        children == SubSeq(every, 1, Len(every) - 1)
        sp == [i \in 1 .. Len(children) |->
                 [begin |-> Range(bl, children[i])[1],
                  end |-> Range(bl, children[i])[2]]]
        lens == [i \in 1 .. Len(children) |-> BlockLen(bl, children[i])]
        largest == Largest(lens)
        bl1 == [h \in DOMAIN bl |->
                  IF \E i \in 1 .. Len(children) : children[i] = h
                  THEN [bl[h] EXCEPT !.parent = index, !.depth = @ + 1]
                  ELSE bl[h]]
        parent == [end |-> bl[first].end, next |-> next,
                   parent |-> bl[first].parent, depth |-> bl[first].depth,
                   witness |-> witness]
    IN  [blocks |-> [bl1 EXCEPT ![index] = parent],
         sg |-> [splitters |-> RemoveAt(sp, largest + 1), parent |-> index]]

\* makeParent(first, next, witness) with the handle index it received:
\* the new block array and the splitgroup it is about to send.
makeParent(bl, first, next, witness, index) ==
    LET children == blockIndices(bl, first, next)
        \* the loop body sets parent and depth of a child before Range reads
        \* end fields only, so the ranges are those of bl
        sp == [i \in 1 .. Len(children) |->
                 [begin |-> Range(bl, children[i])[1],
                  end |-> Range(bl, children[i])[2]]]
        lens == [i \in 1 .. Len(children) |-> BlockLen(bl, children[i])]
        largest == Largest(lens)
        bl1 == [h \in DOMAIN bl |->
                  IF \E i \in 1 .. Len(children) : children[i] = h
                  THEN [bl[h] EXCEPT !.parent = index, !.depth = @ + 1]
                  ELSE bl[h]]
        parent == [end |-> bl[first].end, next |-> next,
                   parent |-> bl[first].parent, depth |-> bl[first].depth,
                   witness |-> witness]
    IN  [blocks |-> [bl1 EXCEPT ![index] = parent],
         sg |-> [splitters |-> RemoveAt(sp, largest + 1), parent |-> index]]

(***************************************************************************)
(* New                                                                     *)
(***************************************************************************)
\* A pool of n - 1 handles only.
InitialPoolShort == [i \in 1 .. (n - 1) |-> i]

\* A pool that starts with handle 0: 0 .. 2n-3.
InitialPoolFromZero == [i \in 1 .. (2 * n - 2) |-> i - 1]

\* The handles New puts into available: 1 .. 2n-2, in this order.
InitialPool == [i \in 1 .. (2 * n - 2) |-> i]

\* The fields New sets, for the arguments n, classes and isWitness.
Constructed ==
    /\ functions = <<>>
    /\ indices = [i \in Slots |-> i]
    /\ partition = [i \in Slots |-> [e |-> i, b |-> 0]]
    /\ blocks = [h \in Handles |-> IF h = 0 THEN [ZeroBlock EXCEPT !.end = n]
                                   ELSE ZeroBlock]
    /\ available = InitialPool
    /\ splitgroups = <<>>
    /\ count = 1
    /\ closed = FALSE
    /\ pc = "New"
    /\ class = 0
    /\ walker = [run |-> TRUE, current |-> 0]
    /\ gor = NoGoroutines
    /\ rf = <<>>
    /\ call = 0
    /\ after1 = <<>>
    /\ inner = <<>>

\* The arguments of New: every n, every k and every class function within
\* the bounds.
Init ==
    /\ n \in 1 .. MaxN
    /\ \E k \in 1 .. MaxK :
          /\ n * k <= MaxCells
          /\ classes \in [1 .. k -> [Slots -> 0 .. (degree - 1)]]
    /\ isWitness \in BOOLEAN
    /\ Constructed

\* The goroutine of blockIndices(0, 0) sends current; the loop of New
\* receives it and starts the goroutine of that block.
WalkStep ==
    /\ pc = "New" /\ walker.run
    /\ LET current == walker.current
           next == blocks[current].next
       IN  /\ gor' = gor @@ (current :> [pc |-> "start"])
           /\ walker' = IF next = 0 THEN [run |-> FALSE, current |-> 0]
                        ELSE [run |-> TRUE, current |-> next]
    /\ UNCHANGED <<inputs, functions, indices, partition, blocks, available, splitgroups,
                   count, closed, pc, class, rf, call, after1, inner>>

\* go func(b): next := p.blocks[b].next, then split up to its first receive
\* from available (the first class keeps handle b).
GoStart(b) ==
    /\ pc = "New" /\ b \in DOMAIN gor /\ gor[b].pc = "start"
    /\ LET f == classes[class + 1]
           begin == Range(blocks, b)[1]
           end == Range(blocks, b)[2]
           sub == Subblocks(partition, f, begin, end)
           c0 == NextClass(sub, 0)
           c1 == NextClass(sub, c0 + 1)
       IN  IF IndexPanics(partition, f, begin, end)
           THEN \* index out of range in subblocks[cls]
                /\ pc' = "panic"
                /\ UNCHANGED <<partition, indices, gor>>
           ELSE IF Len(sub[f[partition[begin].e]]) = end - begin
           THEN /\ gor' = [gor EXCEPT ![b] = [pc |-> "fin"]]
                /\ UNCHANGED <<partition, indices, pc>>
           ELSE IF c1 = degree
           THEN \* split: the internal-error panic (first || last == b)
                /\ pc' = "panic"
                /\ UNCHANGED <<partition, indices, gor>>
           ELSE /\ partition' = PlaceStates(partition, sub[c0], b, end)
                /\ indices' = IndexStates(indices, sub[c0], end)
                /\ gor' = [gor EXCEPT ![b] =
                              [pc |-> "split", next |-> blocks[b].next,
                               sub |-> sub, cls |-> c1, last |-> b,
                               pos |-> end - Len(sub[c0])]]
                /\ pc' = pc
    /\ UNCHANGED <<inputs, functions, blocks, available, splitgroups, count, closed,
                   class, walker, rf, call, after1, inner>>

\* No witness is recorded in New.
PassWitnessNone == <<>>

\* New: var witness []int; if isWitness { witness = []int{class} }.
PassWitness == IF isWitness THEN <<class>> ELSE <<>>

\* split: sb = <-p.available, insertAfter(last, sb), the end of sb, and the
\* elements of the class written into their slots.
SplitPop(b) ==
    /\ pc = "New" /\ b \in DOMAIN gor /\ gor[b].pc = "split"
    /\ available # <<>>
    /\ LET g == gor[b]
           sb == Head(available)
           states == g.sub[g.cls]
           bl == [insertAfter(blocks, g.last, sb) EXCEPT ![sb].end = g.pos]
           c1 == NextClass(g.sub, g.cls + 1)
       IN  /\ available' = Tail(available)
           /\ count' = countInserted(count)
           /\ blocks' = bl
           /\ partition' = PlaceStates(partition, states, sb, g.pos)
           /\ indices' = IndexStates(indices, states, g.pos)
           /\ gor' = [gor EXCEPT ![b] =
                        IF c1 < degree
                        THEN [g EXCEPT !.cls = c1, !.last = sb,
                                       !.pos = g.pos - Len(states)]
                        ELSE [pc |-> "parent", next |-> g.next,
                              witness |-> PassWitness]]
    /\ UNCHANGED <<inputs, functions, splitgroups, closed, pc, class, walker, rf, call,
                   after1, inner>>

\* A receive from available: the head, or the zero value once the channel is
\* closed and drained; it blocks on the open, empty channel.
CanReceive == available # <<>> \/ closed
Received == IF available # <<>> THEN Head(available) ELSE 0
Remaining == IF available # <<>> THEN Tail(available) ELSE <<>>

\* makeParent up to its send: index := <-p.available, the children and the
\* parent block.  A ring that never leads to next keeps blockIndices walking.
ParentPop(b) ==
    /\ pc \in {"New", "clean"} /\ b \in DOMAIN gor /\ gor[b].pc = "parent"
    /\ CanReceive
    /\ available' = Remaining
    /\ IF WalkHangs(blocks, b, gor[b].next)
       THEN /\ pc' = "hang"
            /\ UNCHANGED <<blocks, gor, inner>>
       ELSE LET mp == makeParent(blocks, b, gor[b].next, gor[b].witness,
                                 Received)
            IN  /\ blocks' = mp.blocks
                /\ gor' = [gor EXCEPT ![b] = [pc |-> "send", sg |-> mp.sg]]
                /\ pc' = pc
                /\ inner' = Append(inner, Received)
    /\ UNCHANGED <<inputs, functions, indices, partition, splitgroups, count,
                   closed, class, walker, rf, call, after1>>

\* A send that puts the splitgroup at the head of the queue.
EnqueueFront(q, sg) == <<sg>> \o q

\* p.splitgroups <- sg: the channel hands out in the order of the sends.
Enqueue(q, sg) == Append(q, sg)

\* makeParent: p.splitgroups <- sg (blocks while the channel holds n, panics
\* on the closed channel).
ParentSend(b) ==
    /\ pc \in {"New", "clean"} /\ b \in DOMAIN gor /\ gor[b].pc = "send"
    /\ closed \/ Len(splitgroups) < QueueCap
    /\ IF closed
       THEN /\ pc' = "panic"
            /\ UNCHANGED <<splitgroups, gor>>
       ELSE /\ splitgroups' = Enqueue(splitgroups, gor[b].sg)
            /\ gor' = [gor EXCEPT ![b] = [pc |-> "fin"]]
            /\ pc' = pc
    /\ UNCHANGED <<inputs, functions, indices, partition, blocks, available,
                   count, closed, class, walker, rf, call, after1, inner>>

\* wg.Wait() of a pass, then the next pass or the return of New.
PassEnd ==
    /\ pc = "New" /\ ~walker.run
    /\ \A b \in DOMAIN gor : gor[b].pc = "fin"
    /\ gor' = NoGoroutines
    /\ class' = class + 1
    /\ IF class + 1 < Len(classes)
       THEN /\ pc' = "New"
            /\ walker' = [run |-> TRUE, current |-> 0]
       ELSE /\ pc' = "ready"
            /\ UNCHANGED walker
    /\ UNCHANGED <<inputs, functions, indices, partition, blocks, available, splitgroups,
                   count, closed, rf, call, after1, inner>>

NextNew ==
    \/ WalkStep
    \/ \E b \in Handles : GoStart(b)
    \/ \E b \in Handles : SplitPop(b)
    \/ \E b \in Handles : ParentPop(b)
    \/ \E b \in Handles : ParentSend(b)
    \/ PassEnd

SpecNew == Init /\ [][NextNew]_vars
(***************************************************************************)
(* Refine                                                                  *)
(***************************************************************************)
\* preimage[f][y]: the elements i with functions[f](i) = y, ascending.
preimage(f, y) ==
    SelectSeq([i \in 1 .. n |-> i - 1], LAMBDA x : functions[f][x] = y)

\* One level of move that does not record the new slot of the other element.
moveOnceStale(part, idx, bl, i, nx) ==
    LET pivot == bl[nx].end
        element == part[i].e
    IN  [partition |-> [[part EXCEPT ![i] = part[pivot]]
                           EXCEPT ![pivot] = [e |-> element, b |-> nx]],
         indices |-> [idx EXCEPT ![element] = pivot],
         blocks |-> [bl EXCEPT ![nx].end = @ + 1],
         panic |-> FALSE]

\* One level of move that tags the displaced element with the next block
\* as well.
moveOnceTagsBoth(part, idx, bl, i, nx) ==
    LET pivot == bl[nx].end
        element == part[i].e
        other == part[pivot].e
    IN  [partition |-> [[part EXCEPT ![i] = [e |-> other, b |-> nx]]
                           EXCEPT ![pivot] = [e |-> element, b |-> nx]],
         indices |-> [[idx EXCEPT ![element] = pivot] EXCEPT ![other] = i],
         blocks |-> [bl EXCEPT ![nx].end = @ + 1],
         panic |-> FALSE]

\* One level of move that leaves the end of the next block where it is.
moveOnceNoGrow(part, idx, bl, i, nx) ==
    LET pivot == bl[nx].end
        element == part[i].e
        other == part[pivot].e
    IN  [partition |-> [[part EXCEPT ![i] = part[pivot]]
                           EXCEPT ![pivot] = [e |-> element, b |-> nx]],
         indices |-> [[idx EXCEPT ![element] = pivot] EXCEPT ![other] = i],
         blocks |-> bl,
         panic |-> FALSE]

\* One level of move: the element of slot i is swapped with the one at the
\* end of the next block nx, which grows by that slot.
moveOnce(part, idx, bl, i, nx) ==
    LET pivot == bl[nx].end
        element == part[i].e
        other == part[pivot].e
    IN  [partition |-> [[part EXCEPT ![i] = part[pivot]]
                           EXCEPT ![pivot] = [e |-> element, b |-> nx]],
         indices |-> [[idx EXCEPT ![element] = pivot] EXCEPT ![other] = i],
         blocks |-> [bl EXCEPT ![nx].end = @ + 1],
         panic |-> FALSE]

\* move(i, target): the element of slot i goes from block to next block
\* until it is in target.  panic: no next block, or no such slot.
RECURSIVE moveFrom(_, _, _, _, _, _)
moveFrom(part, idx, bl, i, target, fuel) ==
    LET b == part[i].b
        nx == bl[b].next
        pivot == bl[nx].end
    IN  IF b = target
        THEN [partition |-> part, indices |-> idx, blocks |-> bl, panic |-> FALSE]
        ELSE IF nx = 0 \/ pivot \notin DOMAIN part \/ fuel = 0
        THEN [partition |-> part, indices |-> idx, blocks |-> bl, panic |-> TRUE]
        ELSE LET st == moveOnce(part, idx, bl, i, nx)
             IN  moveFrom(st.partition, st.indices, st.blocks, pivot, target,
                          fuel - 1)

\* move that gives up after one level.
moveOneLevel(part, idx, bl, i, target) == moveFrom(part, idx, bl, i, target, 1)

move(part, idx, bl, i, target) == moveFrom(part, idx, bl, i, target, 2 * n)

\* The position of the loops over successor and predecessors: the first slot
\* offset k >= k0 of the splitter whose element has a predecessor under f,
\* with the successor read from the slot at that moment; k = -1: none left.
ScanFrom(part, f, sp, k0) ==
    LET ks == {k \in k0 .. (sp.end - sp.begin - 1) :
                  Len(preimage(f, part[sp.begin + k].e)) > 0}
    IN  IF ks = {} THEN [k |-> -1, successor |-> [e |-> 0, b |-> 0], j |-> 0]
        ELSE LET k == CHOOSE x \in ks : \A y \in ks : x <= y
             IN  [k |-> k, successor |-> part[sp.begin + k], j |-> 1]

NoMaps == [subblock |-> NoGoroutines, siblings |-> NoGoroutines,
           seen |-> NoGoroutines]

\* The locals at the head of the loop over the splitters for (f, s).
EnterSplitter(sg, suffix, f, s, part) ==
    [sg |-> sg, suffix |-> suffix, f |-> f, s |-> s,
     scan |-> ScanFrom(part, f, sg.splitters[s], 0)] @@ NoMaps

\* A table <<y0, y1, ...>> as the function 0 |-> y0, 1 |-> y1, ...
Table(t) == [v \in 0 .. (Len(t) - 1) |-> t[v + 1]]

\* Inputs of six elements, too many to take all functions over them.
\* Skew: an input on which all six elements are pairwise inequivalent.
SkewClass == <<Table(<<1, 1, 0, 0, 0, 1>>)>>
SkewFunctions == <<Table(<<2, 5, 4, 3, 1, 0>>)>>
\* TestWorstCase with n = 6: the cycle.
CycleClass == <<Table(<<1, 1, 1, 1, 1, 0>>)>>
CycleFunctions == <<Table(<<1, 2, 3, 4, 5, 0>>)>>
\* TestRefine: the outputs and the transitions of the 6-state Mealy machine.
MealyClass == <<Table(<<0, 1, 0, 1, 0, 1>>), Table(<<0, 0, 0, 0, 1, 0>>)>>
MealyFunctions == <<Table(<<1, 2, 3, 4, 5, 0>>), Table(<<0, 0, 3, 4, 5, 0>>)>>

\* Tangle: an input on which a sub-block made in a round is itself split in
\* that round.
TangleClass == <<Table(<<1, 1, 0, 0, 1, 0>>)>>
TangleFunctions == <<Table(<<4, 4, 0, 1, 3, 4>>)>>

\* Drift: an input on which the order of the splitgroups in the queue
\* decides which blocks are split.
DriftClass == <<Table(<<0, 0, 0, 1, 1, 0>>)>>
DriftFunctions == <<Table(<<4, 0, 3, 4, 5, 3>>)>>

SixClasses == {SkewClass, CycleClass, MealyClass, TangleClass}
SixFunctions == {SkewFunctions, CycleFunctions, MealyFunctions,
                 TangleFunctions}

\* The single-class input: 32 elements of class 0, and g(i) = i mod 4.
SingleClass == <<[v \in 0 .. 31 |-> 0]>>
ModFour == <<[v \in 0 .. 31 |-> v % 4]>>

\* The functions Refine may be handed: all of them within the bounds, and
\* the listed ones over the elements of a larger input.
RefineInputs ==
    IF n <= MaxN
    THEN UNION {[1 .. m -> [Slots -> Slots]] :
                   m \in {x \in 0 .. MaxM : n * (Len(classes) + x) <= MaxCells}}
    ELSE {fs \in SixFunctions \cup {DriftFunctions, ModFour} :
             DOMAIN fs[1] = Slots}

\* p.Refine(functions...): the preimages are built, the loop is entered.
RefineStart ==
    /\ pc = "ready" /\ call = 0
    /\ functions' \in RefineInputs
    /\ call' = 1
    /\ pc' = "loop"
    /\ UNCHANGED <<inputs, indices, partition, blocks, available, splitgroups,
                   count, closed, class, walker, gor, rf, after1, inner>>

\* The statements after the loop: close(p.available); close(p.splitgroups).
\* Closing a closed channel panics.
ReturnPc == IF closed THEN "panic" ELSE "done"

ReturnAfter1 ==
    IF call = 1 /\ ~closed
    THEN [partition |-> partition', indices |-> indices', blocks |-> blocks']
    ELSE after1

\* select: a splitgroup is received and the loops over f and the splitters
\* are entered.
Dequeue ==
    /\ pc = "loop" /\ splitgroups # <<>>
    /\ LET sg == Head(splitgroups)
       IN  /\ splitgroups' = Tail(splitgroups)
           /\ IF Len(functions) = 0 \/ Len(sg.splitters) = 0
              THEN /\ pc' = "loop"
                   /\ rf' = [sg |-> sg]
              ELSE /\ pc' = "scan"
                   /\ rf' = EnterSplitter(sg, blocks[sg.parent].witness, 1, 1,
                                          partition)
    /\ UNCHANGED <<inputs, functions, indices, partition, blocks, available,
                   count, closed, class, walker, gor, call, after1, inner>>

\* select on the closed, drained channel: the receive yields the zero
\* splitgroup, which has no splitters, and the loop is at its head again.
DequeueClosed ==
    /\ pc = "loop" /\ splitgroups = <<>> /\ closed
    /\ rf' = [sg |-> [splitters |-> <<>>, parent |-> 0]]
    /\ UNCHANGED <<inputs, functions, indices, partition, blocks, available,
                   splitgroups, count, closed, pc, class, walker, gor, call,
                   after1, inner>>

\* select, default: break done, the channels are closed, Refine returns.
DequeueDefault ==
    /\ pc = "loop" /\ splitgroups = <<>> /\ ~closed
    /\ pc' = ReturnPc
    /\ closed' = TRUE
    /\ UNCHANGED <<inputs, functions, indices, partition, blocks, available,
                   splitgroups, count, class, walker, gor, rf, call, inner>>
    /\ after1' = ReturnAfter1
\* One iteration of the loop over the predecessors of the current successor.
Visit ==
    /\ pc = "scan" /\ rf.scan.k >= 0
    /\ LET sp == rf.sg.splitters[rf.s]
           successor == rf.scan.successor
           predecessors == preimage(rf.f, successor.e)
           e == predecessors[rf.scan.j]
           pb == partition[indices[e]].b
           fresh == pb \notin DOMAIN rf.subblock
           \* subblockFunction(pb): the closure's map m and its last
           sf0 == IF fresh THEN [m |-> NoGoroutines, last |-> pb]
                  ELSE rf.subblock[pb]
           sib0 == IF fresh THEN [x \in 1 .. degree |-> 0] ELSE rf.siblings[pb]
           seen0 == IF fresh THEN {} ELSE rf.seen[pb]
           create == successor.b \notin DOMAIN sf0.m
           i == Received
           bl1 == IF create THEN insertAfter(blocks, sf0.last, i) ELSE blocks
           sf1 == IF create THEN [m |-> sf0.m @@ (successor.b :> i), last |-> i]
                  ELSE sf0
           sb == sf1.m[successor.b]
           mv == move(partition, indices, bl1, indices[e], sb)
           sib1 == IF sb \in seen0 THEN sib0 ELSE Append(sib0, sb)
           maps == [subblock |-> (pb :> sf1) @@ rf.subblock,
                    siblings |-> (pb :> sib1) @@ rf.siblings,
                    seen |-> (pb :> (seen0 \cup {sb})) @@ rf.seen]
           part1 == IF IsSingleton(blocks, pb) THEN partition ELSE mv.partition
           scan1 == IF rf.scan.j < Len(predecessors)
                    THEN [rf.scan EXCEPT !.j = @ + 1]
                    ELSE ScanFrom(part1, rf.f, sp, rf.scan.k + 1)
       IN  IF IsSingleton(blocks, pb)
           THEN \* a singleton is not split: continue
                /\ rf' = [rf EXCEPT !.scan = scan1]
                /\ UNCHANGED <<indices, partition, blocks, available, count, pc>>
           ELSE IF create /\ ~CanReceive
           THEN \* <-p.available with nothing to receive and nobody to send
                /\ pc' = "blocked"
                /\ UNCHANGED <<indices, partition, blocks, available, count, rf>>
           ELSE /\ available' = IF create THEN Remaining ELSE available
                /\ count' = IF create THEN countInserted(count) ELSE count
                /\ blocks' = mv.blocks
                /\ partition' = mv.partition
                /\ indices' = mv.indices
                /\ IF mv.panic
                   THEN /\ pc' = "panic"
                        /\ rf' = rf
                   ELSE /\ pc' = pc
                        /\ rf' = [sg |-> rf.sg, suffix |-> rf.suffix, f |-> rf.f,
                                  s |-> rf.s, scan |-> scan1] @@ maps
    /\ UNCHANGED <<inputs, functions, splitgroups, closed, class, walker, gor,
                   call, after1, inner>>

\* The loop over the successors is over: one goroutine per split block.
ScanEnd ==
    /\ pc = "scan" /\ rf.scan.k < 0
    /\ pc' = "clean"
    /\ gor' = [b \in DOMAIN rf.siblings |-> [pc |-> "clean"]]
    /\ UNCHANGED <<inputs, functions, indices, partition, blocks, available,
                   splitgroups, count, closed, class, walker, rf, call, after1, inner>>

\* go func(b) of the clean-up up to makeParent's receive: the test for an
\* emptied block b with the hand-back of first, then last, next and witness.
CleanStart(b) ==
    /\ pc = "clean" /\ b \in DOMAIN gor /\ gor[b].pc = "clean"
    /\ LET sib == rf.siblings[b]
           first == sib[1]
           empty == blocks[b].end = blocks[first].end
           r == Range(blocks, first)
           bl1 == IF empty THEN [blocks EXCEPT ![b].next = blocks[first].next]
                  ELSE blocks
           sib1 == IF empty THEN Tail(sib) ELSE sib
           last == sib1[Len(sib1)]
       IN  /\ empty => closed \/ Len(available) < PoolCap
           /\ IF empty /\ closed
              THEN \* p.available <- first on the closed channel
                   /\ pc' = "panic"
                   /\ UNCHANGED <<partition, blocks, available, rf, gor>>
              ELSE /\ pc' = pc
                   /\ partition' = IF empty
                         THEN [x \in Slots |->
                                 IF r[1] <= x /\ x < r[2]
                                 THEN [partition[x] EXCEPT !.b = b]
                                 ELSE partition[x]]
                         ELSE partition
                   /\ blocks' = bl1
                   /\ available' = IF empty THEN Append(available, first)
                                    ELSE available
                   /\ rf' = [rf EXCEPT !.siblings[b] = sib1]
                   /\ gor' = [gor EXCEPT ![b] =
                                IF Len(sib1) = 0 THEN [pc |-> "fin"]
                                ELSE [pc |-> "parent", next |-> bl1[last].next,
                                      witness |-> <<rf.f - 1>> \o rf.suffix]]
    /\ UNCHANGED <<inputs, functions, indices, splitgroups, count, closed,
                   class, walker, call, after1, inner>>

\* wg.Wait() of the clean-up and the test of the count: break done when every
\* block is counted a singleton, else the next splitter, function or
\* splitgroup.
CleanEnd ==
    /\ pc = "clean"
    /\ \A b \in DOMAIN gor : gor[b].pc = "fin"
    /\ gor' = NoGoroutines
    /\ IF count = n
       THEN /\ pc' = ReturnPc
            /\ closed' = TRUE
            /\ rf' = rf
       ELSE /\ closed' = closed
            /\ IF rf.s < Len(rf.sg.splitters)
               THEN /\ pc' = "scan"
                    /\ rf' = EnterSplitter(rf.sg, rf.suffix, rf.f, rf.s + 1,
                                           partition)
               ELSE IF rf.f < Len(functions)
               THEN /\ pc' = "scan"
                    /\ rf' = EnterSplitter(rf.sg, rf.suffix, rf.f + 1, 1,
                                           partition)
               ELSE /\ pc' = "loop"
                    /\ rf' = [sg |-> rf.sg]
    /\ UNCHANGED <<inputs, functions, indices, partition, blocks, available,
                   splitgroups, count, class, walker, call, inner>>
    /\ after1' = ReturnAfter1

\* Refine is called a second time with the same functions.
RefineAgain ==
    /\ pc = "done" /\ call = 1
    /\ call' = 2
    /\ pc' = "loop"
    /\ UNCHANGED <<inputs, functions, indices, partition, blocks, available,
                   splitgroups, count, closed, class, walker, gor, rf, after1, inner>>

NextRefine ==
    \/ RefineStart
    \/ Dequeue
    \/ DequeueClosed
    \/ DequeueDefault
    \/ Visit
    \/ ScanEnd
    \/ \E b \in Handles : CleanStart(b)
    \/ CleanEnd
    \/ RefineAgain

Next == NextNew \/ NextRefine

Spec == Init /\ [][Next]_vars

\* New and Refine on the inputs of six elements.
InitSix ==
    /\ classes \in SixClasses
    /\ n = Cardinality(DOMAIN classes[1])
    /\ isWitness \in BOOLEAN
    /\ Constructed

SpecSix == InitSix /\ [][Next]_vars

\* The arguments of New for the runs under fairness: up to three elements,
\* with witness recording (isWitness changes no step New or Refine takes).
InitFair == Init /\ n <= 3 /\ isWitness

\* Every goroutine that can take a step takes one eventually.
FairSpec == InitFair /\ [][Next]_vars /\ WF_vars(Next)

\* The length New asks of make for p.blocks and for the pool.
BlocksLen == 2 * n - 1

\* New when make is asked for a negative length: the run-time panic of
\* make([]Block, (2*n)-1), after indices and partition have been made and
\* before anything else is.
MakePanics ==
    /\ functions = <<>>
    /\ indices = [i \in Slots |-> i]
    /\ partition = [i \in Slots |-> [e |-> i, b |-> 0]]
    /\ blocks = [h \in Handles |-> ZeroBlock]
    /\ available = <<>>
    /\ splitgroups = <<>>
    /\ count = 0
    /\ closed = FALSE
    /\ pc = "panic"
    /\ class = 0
    /\ walker = [run |-> FALSE, current |-> 0]
    /\ gor = NoGoroutines
    /\ rf = <<>>
    /\ call = 0
    /\ after1 = <<>>
    /\ inner = <<>>

\* The arguments of New with the empty universe among them.
InitAny ==
    /\ n \in 0 .. MaxN
    /\ \E k \in 1 .. MaxK :
          /\ n * k <= MaxCells
          /\ classes \in [1 .. k -> [Slots -> 0 .. (degree - 1)]]
    /\ isWitness \in BOOLEAN
    /\ IF BlocksLen < 0 THEN MakePanics ELSE Constructed

SpecAny == InitAny /\ [][Next]_vars

\* The listed inputs of six elements and the single-class input.
InitListed ==
    /\ classes \in SixClasses \cup {DriftClass, SingleClass}
    /\ n = Cardinality(DOMAIN classes[1])
    /\ isWitness \in BOOLEAN
    /\ Constructed

SpecListed == InitListed /\ [][Next]_vars

\* The arguments of New with class functions that may return degree, one
\* more than the highest class allowed.
MaxWideN == 3

InitWide ==
    /\ n \in 1 .. MaxWideN
    /\ \E k \in 1 .. MaxK :
          /\ n * k <= MaxCells
          /\ classes \in [1 .. k -> [Slots -> 0 .. degree]]
    /\ isWitness \in BOOLEAN
    /\ Constructed

SpecWide == InitWide /\ [][Next]_vars

(***************************************************************************)
(* Notions the properties are stated in                                    *)
(***************************************************************************)
\* The leaf block handle a value carries.
LeafOf(v) == partition[indices[v]].b

\* The leaves reached by walking the ring from handle 0.
Ring == blockIndices(blocks, 0, 0)

\* New has returned and Refine has not started / the first Refine returned.
AfterNew == pc = "ready"
AfterRefine == pc = "done" /\ call = 1

\* v and u have the same class under every class function.
SameClasses(v, u) == \A j \in 1 .. Len(classes) : classes[j][v] = classes[j][u]

\* The pairs no sequence of at most i functions of Refine followed by a class
\* function tells apart; with i = n this is equivalence.
RECURSIVE Indistinct(_)
Indistinct(i) ==
    IF i = 0 THEN {p \in Slots \X Slots : SameClasses(p[1], p[2])}
    ELSE LET E == Indistinct(i - 1)
         IN  {p \in E : \A f \in 1 .. Len(functions) :
                  <<functions[f][p[1]], functions[f][p[2]]>> \in E}

Equivalent == Indistinct(n)

\* No two distinct elements are equivalent.
AllDistinct == \A v, u \in Slots : v # u => <<v, u>> \notin Equivalent

\* The splitting tree, read off the parent and depth fields of the blocks:
\* the ancestor of node h at depth d (h itself when it is no deeper).
RECURSIVE Ancestor(_, _, _)
Ancestor(h, d, fuel) ==
    IF blocks[h].depth <= d \/ fuel = 0 THEN h
    ELSE Ancestor(blocks[h].parent, d, fuel - 1)

\* The lowest common ancestor of the nodes a and b: their common ancestor
\* of the greatest depth (a itself if their chains of parents never meet).
lca(a, b) ==
    LET top == IF blocks[a].depth <= blocks[b].depth THEN blocks[a].depth
               ELSE blocks[b].depth
        common == {d \in 0 .. top :
                      Ancestor(a, d, 2 * n) = Ancestor(b, d, 2 * n)}
        deepest == CHOOSE d \in common : \A x \in common : x <= d
    IN  IF common = {} THEN a ELSE Ancestor(a, deepest, 2 * n)

\* The witness stored on the lowest common ancestor of the leaves of v and u.
Witness(v, u) == blocks[lca(LeafOf(v), LeafOf(u))].witness

\* The lowest index (0-based) of a class function that tells v and u apart.
Separator(v, u) ==
    CHOOSE j \in 0 .. (Len(classes) - 1) :
        /\ classes[j + 1][v] # classes[j + 1][u]
        /\ \A i \in 0 .. (j - 1) : classes[i + 1][v] = classes[i + 1][u]

(***************************************************************************)
(* The splitting tree, read off the blocks                                 *)
(***************************************************************************)
\* The handles in use: the leaves of the ring and the inner nodes.
Leaves == {Ring[i] : i \in 1 .. Len(Ring)}
Inner == {inner[i] : i \in 1 .. Len(inner)}
Nodes == Leaves \cup Inner

\* The children of the inner node u: the nodes whose parent field names it.
\* The topmost inner node is not a child, though its parent field is 0.
TopNode == IF inner = <<>> THEN 0 ELSE inner[1]
Children(u) ==
    IF u \notin Inner THEN {}
    ELSE {h \in Nodes \ {u, TopNode} : blocks[h].parent = u}

\* The nodes on the chain of parent links from h up to the topmost node.
RECURSIVE ChainFrom(_, _)
ChainFrom(h, fuel) ==
    IF h = TopNode \/ fuel = 0 THEN {h}
    ELSE {h} \cup ChainFrom(blocks[h].parent, fuel - 1)

Chain(h) == ChainFrom(h, 2 * n)

\* The values in the leaves below (or at) node h.
Under(h) == {v \in Slots : h \in Chain(LeafOf(v))}

\* Replaying a witness w = <<w_0, ..., w_L>> on x in construction order: the
\* transition functions w_0, ..., w_(L-1) in turn, then the class of class
\* function w_L; -1 if w is empty or names a function that does not exist.
RECURSIVE Travel(_, _, _)
Travel(w, i, x) ==
    IF i >= Len(w) THEN x
    ELSE Travel(w, i + 1, functions[w[i] + 1][x])

Replay(w, x) ==
    IF /\ Len(w) >= 1
       /\ \A i \in 1 .. (Len(w) - 1) : w[i] + 1 \in 1 .. Len(functions)
       /\ w[Len(w)] + 1 \in 1 .. Len(classes)
    THEN classes[w[Len(w)] + 1][Travel(w, 1, x)]
    ELSE -1

Distinguishes(w, x, y) ==
    Replay(w, x) # -1 /\ Replay(w, y) # -1 /\ Replay(w, x) # Replay(w, y)

\* The number of parent links from node h to the topmost node.
RECURSIVE LinksFrom(_, _)
LinksFrom(h, fuel) ==
    IF h = TopNode \/ fuel = 0 THEN 0
    ELSE 1 + LinksFrom(blocks[h].parent, fuel - 1)

Links(h) == LinksFrom(h, 2 * n)

\* The slots of node h, by Range.
SlotsOf(h) == Range(blocks, h)[1] .. (Range(blocks, h)[2] - 1)

\* New has returned, or the first Refine is between two splitter rounds (no
\* block has been split in the round it is in) or has returned.
BetweenRounds ==
    \/ AfterNew
    \/ /\ call = 1
       /\ \/ pc \in {"loop", "done"}
          \/ pc = "scan" /\ DOMAIN rf.subblock = {}

\* Refine is inside a splitter round in which a block has been split.
RoundOpen == pc \in {"scan", "clean"} /\ DOMAIN rf.subblock # {}

\* Every inner node is one New has made: its witness is <<class>> with
\* witness recording and empty without, while Refine stores <<f>> \o suffix.
NoRefineNode ==
    \A u \in Inner : Len(blocks[u].witness) = IF isWitness THEN 1 ELSE 0

\* The first Refine runs on a partition that was discrete when New returned
\* and has changed nothing so far.
DiscreteFromNew ==
    call = 1 /\ Len(Ring) = n /\ NoRefineNode /\ ~RoundOpen

\* The lowest-common-ancestor walk: from the leaf of the value at the lower
\* slot, ascend via parent while the end of the current node is at most the
\* higher slot.  -1 if the walk has not stopped after 2n steps.
RECURSIVE Ascend(_, _, _)
Ascend(current, hi, fuel) ==
    IF blocks[current].end > hi THEN current
    ELSE IF fuel = 0 THEN -1
    ELSE Ascend(blocks[current].parent, hi, fuel - 1)

LcaWalk(v, u) ==
    LET lo == IF indices[v] <= indices[u] THEN indices[v] ELSE indices[u]
        hi == IF indices[v] <= indices[u] THEN indices[u] ELSE indices[v]
    IN  Ascend(partition[lo].b, hi, 2 * n)

\* The nodes above (or at) both the leaf of v and the leaf of u.
CommonAncestors(v, u) == Chain(LeafOf(v)) \cap Chain(LeafOf(u))

\* The witnesses expected for the Mealy machine of TestRefine, for v < u.
MealyWitness ==
    (<<0, 1>> :> <<0>>) @@ (<<0, 2>> :> <<1, 0>>) @@ (<<0, 3>> :> <<0>>) @@
    (<<0, 4>> :> <<1>>) @@ (<<0, 5>> :> <<0>>) @@ (<<1, 2>> :> <<0>>) @@
    (<<1, 3>> :> <<0, 1>>) @@ (<<1, 4>> :> <<0>>) @@
    (<<1, 5>> :> <<0, 1, 0>>) @@ (<<2, 3>> :> <<0>>) @@ (<<2, 4>> :> <<1>>) @@
    (<<2, 5>> :> <<0>>) @@ (<<3, 4>> :> <<0>>) @@ (<<3, 5>> :> <<0, 1>>) @@
    (<<4, 5>> :> <<0>>)

\* Replaying w = <<w_0, ..., w_L>> the other way round: the transition
\* functions w_1, ..., w_L in turn, then the class of class function w_0.
RECURSIVE TravelTail(_, _, _)
TravelTail(w, i, x) ==
    IF i > Len(w) THEN x
    ELSE TravelTail(w, i + 1, functions[w[i] + 1][x])

ReplayClassFirst(w, x) ==
    IF /\ Len(w) >= 1
       /\ \A i \in 2 .. Len(w) : w[i] + 1 \in 1 .. Len(functions)
       /\ w[1] + 1 \in 1 .. Len(classes)
    THEN classes[w[1] + 1][TravelTail(w, 2, x)]
    ELSE -1

\* The length of a shortest sequence (transition functions, then one class
\* function) telling v and u apart; 0 if they are equivalent.
ShortestLength(v, u) ==
    IF <<v, u>> \in Equivalent THEN 0
    ELSE LET apart == {i \in 0 .. n : <<v, u>> \notin Indistinct(i)}
         IN  1 + (CHOOSE i \in apart : \A j \in apart : i <= j)

(***************************************************************************)
(* The claims                                                              *)
(***************************************************************************)
\* C1: once New has returned, under every interleaving of its per-block
\* goroutines, two values carry the same leaf block handle if and only if
\* every class function gives them the same class.
C1SameLeafIffSameClasses ==
    AfterNew =>
        \A v, u \in Slots : (LeafOf(v) = LeafOf(u)) <=> SameClasses(v, u)

\* New has returned after two passes that left at least three leaves, one of
\* them with two values.
C1Witness ==
    /\ AfterNew /\ Len(classes) = 2 /\ Len(Ring) >= 3
    /\ \E v, u \in Slots : v # u /\ LeafOf(v) = LeafOf(u)

\* C2: Refine never separates equivalent elements: when the first Refine has
\* returned, two values that no sequence of transition functions followed by
\* a class function tells apart are in the same leaf.
C2Coarsest ==
    AfterRefine =>
        \A v, u \in Slots : <<v, u>> \in Equivalent => LeafOf(v) = LeafOf(u)

\* C3: when the first Refine has returned the partition is stable: two
\* values of the same leaf agree on every class function and every
\* transition function takes them to values of the same leaf.
C3Stable ==
    AfterRefine =>
        \A v, u \in Slots : LeafOf(v) = LeafOf(u) =>
            /\ SameClasses(v, u)
            /\ \A f \in 1 .. Len(functions) :
                  LeafOf(functions[f][v]) = LeafOf(functions[f][u])

\* C4: if no two distinct elements are equivalent, then after New and Refine
\* the ring has exactly n leaves and no two values share a leaf.
C4Singletons ==
    (AfterRefine /\ AllDistinct) =>
        /\ Len(Ring) = n
        /\ \A v, u \in Slots : v # u => LeafOf(v) # LeafOf(u)

\* The cycle and the Mealy machine do end with six singleton leaves.
C4Witness ==
    /\ AfterRefine /\ AllDistinct /\ Len(Ring) = n
    /\ \/ classes = CycleClass /\ functions = CycleFunctions
       \/ classes = MealyClass /\ functions = MealyFunctions

C6Idempotent ==
    (call = 2) ~> (/\ pc = "done"
                   /\ after1 = [partition |-> partition, indices |-> indices,
                                blocks |-> blocks])

\* C7: after New, after every move and after Refine the inverse index is
\* consistent: partition[indices[v]].e = v for every value v.
C7InverseIndex ==
    pc # "New" => \A v \in Slots : partition[indices[v]].e = v

\* Refine has just moved an element into a new sub-block, and some value is
\* no longer in the slot of its own number.
C7Witness ==
    /\ pc = "scan"
    /\ \E b \in DOMAIN rf.siblings : Len(rf.siblings[b]) > degree
    /\ \E v \in Slots : indices[v] # v /\ partition[indices[v]].b # 0

\* C8: after New and after Refine the value held in count is the number of
\* leaves reached by walking the ring from handle 0.
C8CountIsRingLength ==
    (AfterNew \/ AfterRefine) => count = Len(Ring)

\* The first Refine has returned and left more leaves than New had made.
C8Witness ==
    /\ AfterRefine /\ count = Len(Ring)
    /\ count > Len(splitgroups) + 2 /\ count > Len(classes) * degree

\* C9: in every reachable state there are at most n leaves, and at most
\* 2n-1 handles in use: the leaves of the ring and the inner nodes.
C9HandleBound ==
    /\ Len(Ring) <= n
    /\ Len(Ring) + Len(inner) <= 2 * n - 1

\* All 2n-1 handles are in use: n leaves and n-1 inner nodes.
C9Witness == n >= 3 /\ Len(Ring) = n /\ Len(inner) = n - 1

\* C10: after New with witness recording, the witness on the lowest common
\* ancestor of the leaves of v and u is [j] for the lowest index j of a class
\* function that separates them, and nil when they are in the same leaf.
C10NewWitness ==
    (AfterNew /\ isWitness) =>
        \A v, u \in Slots :
            Witness(v, u) = IF SameClasses(v, u) THEN <<>>
                            ELSE <<Separator(v, u)>>

\* New has returned with a pair separated by the first class function, a
\* pair separated by the second only, and a pair in one leaf.
C10Witness ==
    /\ AfterNew /\ isWitness /\ Len(classes) = 2
    /\ \E v, u \in Slots : Witness(v, u) = <<0>>
    /\ \E v, u \in Slots : Witness(v, u) = <<1>>
    /\ \E v, u \in Slots : v # u /\ Witness(v, u) = <<>>

\* C11: with witness recording, when New and Refine have returned the
\* witness on any inner node u, replayed in construction order, gives
\* different classes for any two elements lying in distinct children of u.
C11WitnessDistinguishes ==
    (AfterRefine /\ isWitness) =>
        \A u \in Inner : \A a, b \in Children(u) : a # b =>
            \A x \in Under(a) : \A y \in Under(b) :
                Distinguishes(blocks[u].witness, x, y)

\* C12: with witness recording, when New and Refine have returned, for v and
\* u in different leaves the witness <<w_0, ..., w_L>> of their lowest common
\* ancestor, replayed by applying the transition functions w_1, ..., w_L and
\* then classifying with class function w_0, gives different classes.
C12ReplayClassFirst ==
    (AfterRefine /\ isWitness) =>
        \A v, u \in Slots : LeafOf(v) # LeafOf(u) =>
            LET w == Witness(v, u)
            IN  /\ ReplayClassFirst(w, v) # -1
                /\ ReplayClassFirst(w, u) # -1
                /\ ReplayClassFirst(w, v) # ReplayClassFirst(w, u)

\* C13: with witness recording, when New and Refine have returned, for v and
\* u in different leaves the witness on their lowest common ancestor is as
\* long as a shortest sequence that tells v and u apart.
C13WitnessMinimal ==
    (AfterRefine /\ isWitness) =>
        \A v, u \in Slots : LeafOf(v) # LeafOf(u) =>
            Len(Witness(v, u)) = ShortestLength(v, u)

\* C14: on the 6-state Mealy machine of TestRefine with witness recording,
\* when New and Refine have returned there are six singleton leaves, every
\* pair of distinct states has the expected witness, a state paired with
\* itself has the empty witness, and no witness is longer than 3.
C14MealyWitnesses ==
    (AfterRefine /\ isWitness /\ classes = MealyClass
                 /\ functions = MealyFunctions) =>
        /\ Len(Ring) = 6
        /\ \A v, u \in Slots :
               /\ v < u => Witness(v, u) = MealyWitness[<<v, u>>]
               /\ v = u => Witness(v, u) = <<>>
        /\ \A h \in Nodes : Len(blocks[h].witness) <= 3

\* C15: on the tree New has built and on the tree New and Refine have built,
\* the lowest-common-ancestor walk for v and u stops, at a node that is above
\* or at the leaves of both v and u and whose slot range is the smallest
\* among their common ancestors.
C15LcaWalk ==
    (AfterNew \/ AfterRefine) =>
        \A v, u \in Slots :
            LET r == LcaWalk(v, u)
            IN  /\ r # -1
                /\ r \in CommonAncestors(v, u)
                /\ \A c \in CommonAncestors(v, u) :
                       BlockLen(blocks, r) <= BlockLen(blocks, c)

\* C16: when New has returned and after every completed splitter round of
\* Refine the blocks form a splitting tree: every inner node has at least
\* two children, whose slot ranges are pairwise disjoint and together make
\* up the node's range; the topmost inner node covers all slots; a node
\* without children is a block of the ring; and the parent of every other
\* node is an inner node whose range strictly contains the node's range.
C16SplittingTree ==
    BetweenRounds =>
        /\ \A u \in Inner :
               /\ Cardinality(Children(u)) >= 2
               /\ \A a, b \in Children(u) :
                      a # b => SlotsOf(a) \cap SlotsOf(b) = {}
               /\ UNION {SlotsOf(a) : a \in Children(u)} = SlotsOf(u)
        /\ Inner # {} => SlotsOf(TopNode) = Slots
        /\ \A h \in Nodes : Children(h) = {} => h \in Leaves
        /\ \A h \in Nodes \ {TopNode} :
               /\ blocks[h].parent \in Inner
               /\ SlotsOf(h) \subseteq SlotsOf(blocks[h].parent)
               /\ SlotsOf(h) # SlotsOf(blocks[h].parent)

\* C17: when New with k class functions has returned, the depth field of
\* every leaf is at most k and is the number of parent links from the leaf
\* to the topmost node; the topmost node has depth 0 and every other node
\* is one deeper than its parent.
C17NewHeight ==
    AfterNew =>
        /\ \A h \in Leaves :
               /\ blocks[h].depth <= Len(classes)
               /\ blocks[h].depth = Links(h)
        /\ blocks[TopNode].depth = 0
        /\ \A h \in Nodes \ {TopNode} :
               blocks[h].depth = blocks[blocks[h].parent].depth + 1

\* New has returned with two class functions, a leaf at depth 2 and a leaf
\* at depth 1.
C17Witness ==
    /\ AfterNew /\ Len(classes) = 2
    /\ \E h \in Leaves : blocks[h].depth = 2 /\ Links(h) = 2
    /\ \E h \in Leaves : blocks[h].depth = 1 /\ Links(h) = 1

\* C18: in every state every inner node of the splitting tree has at most
\* degree children.
C18DegreeBound == \A u \in Inner : Cardinality(Children(u)) <= degree

\* C19: in no reachable state of New or Refine does the free pool available
\* hold handle 0.
C19ZeroNeverReleased == \A i \in 1 .. Len(available) : available[i] # 0

\* C20: New(0, degree, isWitness, fs...) with degree >= 1 returns an engine:
\* with n = 0 construction does not end in a panic.
C20EmptyUniverse == n = 0 => pc # "panic"

\* Class function j + 1 returns a value of degree or more for some element.
OutOfRange(j) == \E v \in Slots : classes[j + 1][v] >= degree

\* C21: if a class function returns a value >= degree for an element, New
\* fails: it does not get past the pass of the first such function and never
\* returns an engine.
C21OutOfRangeFatal ==
    \A j \in 0 .. (Len(classes) - 1) :
        OutOfRange(j) => /\ pc \in {"New", "panic"}
                         /\ class <= j

\* New has panicked in its second pass, on a class function that is out of
\* range, after the first class function has split the universe.
C21Witness ==
    /\ Len(classes) = 2 /\ ~OutOfRange(0) /\ OutOfRange(1)
    /\ pc = "panic" /\ class = 1 /\ call = 0 /\ count > 1

\* C22: with n = 32 and the constant-0 class function there is one leaf when
\* New has returned, and when the following Refine(g) with g(i) = i mod 4
\* has returned there are four leaves.
C22SingleClassFourLeaves ==
    classes = SingleClass =>
        /\ AfterNew => Len(Ring) = 1
        /\ (AfterRefine /\ functions = ModFour) => Len(Ring) = 4

\* C22 as the code has it: with n = 32 and the constant-0 class function
\* there is one leaf when New has returned, and Refine(g) with
\* g(i) = i mod 4 leaves that one leaf: all elements are equivalent.
C22SingleClassOneLeaf ==
    classes = SingleClass =>
        /\ AfterNew => Len(Ring) = 1 /\ splitgroups = <<>>
        /\ (AfterRefine /\ functions = ModFour) =>
               /\ Len(Ring) = 1 /\ count = 1 /\ inner = <<>>
               /\ \A v \in Slots : LeafOf(v) = 0

\* Refine(g) with g(i) = i mod 4 has returned on the 32 elements of class 0.
C22Witness ==
    /\ n = 32 /\ classes = SingleClass /\ functions = ModFour
    /\ AfterRefine /\ Len(Ring) = 1

\* C23: if the partition is discrete when New has returned, no step of
\* Refine changes the slot of a value, the block handle of a value, a ring
\* link or any other field of a block, no inner node is created, and no
\* step asks the free pool for a handle (the pool is empty by then).
C23DiscreteNoOp ==
    [][DiscreteFromNew => /\ partition' = partition
                          /\ indices' = indices
                          /\ blocks' = blocks
                          /\ inner' = inner
                          /\ count' = count
                          /\ pc' # "blocked"]_vars

\* Refine scans a splitter, and has returned, on a partition of three or
\* more elements that New left discrete.
C23Witness ==
    /\ DiscreteFromNew /\ n >= 3 /\ Len(functions) >= 1
    /\ pc = "done"
    /\ after1.partition = partition /\ after1.blocks = blocks

\* The partition as a set of sets of values: the values of each leaf.
LeafSets == {{v \in Slots : LeafOf(v) = h} : h \in {LeafOf(x) : x \in Slots}}

\* The partition one schedule of New and Refine ends with on Drift.
DriftFinal == {{0}, {1}, {3}, {4}, {2, 5}}

\* C24: the partition New and Refine end with is the same for every
\* interleaving of the goroutines and every order of the splitgroups in the
\* queue; on Drift it is then the one that one schedule ends with.
C24ScheduleIndependent ==
    (AfterRefine /\ classes = DriftClass /\ functions = DriftFunctions) =>
        LeafSets = DriftFinal

\* A schedule of New and Refine on Drift ends with DriftFinal.
C24DriftFinalReached ==
    /\ AfterRefine /\ classes = DriftClass /\ functions = DriftFunctions
    /\ LeafSets = DriftFinal

\* The blocks the walker of the pass has yet to send: the walk from its
\* current block to the end of the ring.
PendingWalk ==
    IF pc = "New" /\ walker.run THEN blockIndices(blocks, walker.current, 0)
    ELSE <<>>

\* The blocks a goroutine of the pass has been started for.
HandedOut == DOMAIN gor

\* C25: in a pass of New the blocks handed to split are the leaves of the
\* ring at the start of the pass, each once, whatever the goroutines of the
\* pass do meanwhile: the walker starts on the whole ring, a step that
\* hands out a block hands out the head of the pending walk, which was not
\* handed out before, and leaves its tail pending; no other step changes
\* the pending walk; a leaf put into the ring during the pass is neither
\* pending nor handed out; and the pass ends with nothing pending.
C25PassHandsOutRing ==
    [][pc = "New" =>
         /\ HandedOut = {} => PendingWalk = Ring
         /\ IF class' = class /\ pc' = "New"
            THEN /\ IF HandedOut' # HandedOut
                    THEN /\ PendingWalk # <<>>
                         /\ Head(PendingWalk) \notin HandedOut
                         /\ HandedOut' = HandedOut \cup {Head(PendingWalk)}
                         /\ PendingWalk' = Tail(PendingWalk)
                    ELSE PendingWalk' = PendingWalk
                 /\ \A h \in Leaves' \ Leaves :
                        /\ h \notin HandedOut'
                        /\ \A i \in 1 .. Len(PendingWalk') :
                               PendingWalk'[i] # h
            ELSE pc' = "panic" \/ PendingWalk = <<>>]_vars

\* In the second pass a goroutine has put a new leaf into the ring while
\* the walker has blocks left to send.
C25Witness ==
    /\ pc = "New" /\ class = 1 /\ PendingWalk # <<>> /\ walker.current # 0
    /\ \E b \in HandedOut : gor[b].pc \in {"parent", "send", "fin"}
    /\ Len(Ring) >= 3

\* The leaves of the ring at the start of the pass: those handed out and
\* those pending.
PassBlocks == HandedOut \cup {PendingWalk[i] : i \in 1 .. Len(PendingWalk)}

\* The slots block b of the pass had when the pass started: from the end of
\* the pass block below it up to its own end.
Lower(b) ==
    LET below == {blocks[c].end : c \in {x \in PassBlocks :
                                            blocks[x].end < blocks[b].end}}
    IN  IF below = {} THEN 0
        ELSE CHOOSE e \in below : \A x \in below : x <= e

Territory(b) == Lower(b) .. (blocks[b].end - 1)

\* What a step writes.
ChangedSlots == {i \in Slots : partition'[i] # partition[i]}
ChangedIndices == {v \in Slots : indices'[v] # indices[v]}
ChangedBlocks == {h \in Handles : blocks'[h] # blocks[h]}

\* The goroutines of the pass that take the step.
Actors == {b \in DOMAIN gor \cap DOMAIN gor' : gor'[b] # gor[b]}

\* The fields of another block's record the goroutine of b reads: Range
\* reads the end of the block behind b and behind each sub-block of b; the
\* last of these is the old successor of b.
ForeignReads(b) ==
    IF "next" \in DOMAIN gor[b] /\ gor[b].next # 0
    THEN {gor[b].next} ELSE {}

\* C26: in a pass of New the goroutine of a block writes only the slots its
\* block had when the pass started, the indices entries of the values in
\* them, and the records of its own block, of the leaves inside its slots
\* and of the handle it has just received from the pool; the pool holds
\* each handle once and none that is in use; the only field of another
\* block a goroutine reads, the end of its old successor, is written by no
\* step, and no step writes the record of a block the walker has yet to
\* read; nothing else is written but by a goroutine of the pass.
C26DisjointWrites ==
    [][(pc = "New" /\ pc' = "New" /\ class' = class) =>
         /\ Cardinality(Actors) <= 1
         /\ (ChangedSlots \cup ChangedIndices \cup ChangedBlocks) # {}
                => Actors # {}
         /\ \A b \in Actors :
               /\ ChangedSlots \subseteq Territory(b)
               /\ \A v \in ChangedIndices :
                      indices[v] \in Territory(b) /\ indices'[v] \in Territory(b)
               /\ \A h \in ChangedBlocks :
                      \/ h = b
                      \/ available # <<>> /\ h = Head(available)
                                         /\ available' = Tail(available)
                      \/ h \in Leaves /\ (blocks[h].end - 1) \in Territory(b)
         /\ \A c \in PassBlocks :
               /\ blocks'[c].end = blocks[c].end
               /\ c \notin HandedOut => blocks'[c] = blocks[c]
         /\ \A c \in HandedOut : \A h \in ForeignReads(c) :
               blocks'[h].end = blocks[h].end
         /\ \A i, j \in 1 .. Len(available) :
               /\ available[i] \notin Leaves \cup Inner
               /\ i # j => available[i] # available[j]]_vars

\* Two goroutines of the second pass are inside split or makeParent at the
\* same time, each having written slots of its block.
C26Witness ==
    /\ pc = "New" /\ class = 1
    /\ \E b, c \in HandedOut :
          /\ b # c
          /\ gor[b].pc \in {"split", "parent", "send"}
          /\ gor[c].pc \in {"split", "parent", "send"}

\* The values leaf h holds.
ElemsOf(h) == {v \in Slots : LeafOf(v) = h}

\* The clean-up of a splitter round is over: every goroutine it started has
\* returned, the maps of the round are still there.
RoundDone ==
    /\ call = 1 /\ pc = "clean"
    /\ \A c \in DOMAIN gor : gor[c].pc = "fin"

\* The sub-blocks the round made for block b, and all it made.
RoundSubblocks(b) ==
    IF b \in DOMAIN rf.subblock
    THEN {rf.subblock[b].m[t] : t \in DOMAIN rf.subblock[b].m}
    ELSE {}

RoundCreated == UNION {RoundSubblocks(c) : c \in DOMAIN rf.subblock}

\* The block a value was in when the round started, and the values block b
\* held then: its own and those the round moved to its sub-blocks.
StartBlock(w) ==
    IF LeafOf(w) \in RoundCreated
    THEN CHOOSE c \in DOMAIN rf.subblock : LeafOf(w) \in RoundSubblocks(c)
    ELSE LeafOf(w)

StartElems(b) == {v \in Slots : StartBlock(v) = b}

\* The values in the slots of the splitter of the round.
SplitterElems ==
    LET sp == rf.sg.splitters[rf.s]
    IN  {partition[i].e : i \in sp.begin .. (sp.end - 1)}

\* Every element of b has its successor under the function of the round
\* inside the splitter, and all these successors were in one block.
SameTarget(b) ==
    LET g == functions[rf.f]
    IN  /\ \A v \in StartElems(b) : g[v] \in SplitterElems
        /\ \A v, u \in StartElems(b) : StartBlock(g[v]) = StartBlock(g[u])

\* C27: a leaf all of whose elements have their successor inside the
\* splitter of the round and in the same target class is not split by the
\* round: when the round is over it holds all the elements it held, and no
\* inner node has been made over it.
C27SameTargetNotSplit ==
    RoundDone =>
        \A b \in Leaves \ RoundCreated :
            SameTarget(b) =>
                /\ ElemsOf(b) = StartElems(b)
                /\ ~\E u \in Inner :
                       {partition[i].e : i \in SlotsOf(u)} = StartElems(b)

\* C28: no active leaf is empty: when New has returned, when a splitter
\* round is over and when Refine has returned every block of the ring has
\* one element or more; indeed no step leaves an empty block in the ring,
\* so that no block emptied by moves is there when a round ends.
C28NoEmptyLeaf ==
    pc \in {"New", "ready", "loop", "scan", "clean", "done"} =>
        \A h \in Leaves : BlockLen(blocks, h) >= 1

\* A splitter round is over in which a block of two or more elements has
\* been moved out of down to its last element.
C28Witness ==
    /\ RoundDone
    /\ \E b \in DOMAIN rf.subblock :
          /\ Cardinality(StartElems(b)) >= 2
          /\ BlockLen(blocks, b) = 1
          /\ \A h \in RoundSubblocks(b) : BlockLen(blocks, h) >= 1

\* The splitgroups there are: made and about to be sent, in the queue, or
\* the one Refine is working off.
InFlight ==
    {gor[b].sg : b \in {x \in DOMAIN gor : gor[x].pc = "send"}}
    \cup {splitgroups[i] : i \in 1 .. Len(splitgroups)}
    \cup (IF pc \in {"scan", "clean"} THEN {rf.sg} ELSE {})

\* The slots of the splitters of a splitgroup, and the slots of its parent
\* that no splitter has: those of the child makeParent has left out.
SplitterSlots(sg) ==
    UNION {sg.splitters[i].begin .. (sg.splitters[i].end - 1) :
              i \in 1 .. Len(sg.splitters)}

OmittedSlots(sg) == SlotsOf(sg.parent) \ SplitterSlots(sg)

\* The values whose slot, by p.indices, is one of these.
OmittedElems(sg) == {v \in Slots : indices[v] \in OmittedSlots(sg)}

\* The slot range of a child, as makeParent stores it in a splitter.
RangeOf(c) == [begin |-> Range(blocks, c)[1], end |-> Range(blocks, c)[2]]

\* C29: the splitgroup makeParent makes and sends has the slot ranges of all
\* children of its parent but one, and the child left out is one of maximal
\* length; the
\* values in the slots of the child left out stay the same set as long as
\* the splitgroup is there, and no successor Refine scans for the
\* splitgroup is one of them.
C29LargestOmitted ==
    [][/\ \A sg \in InFlight' \ InFlight :
            LET kids == Children(sg.parent)'
                ranges == {RangeOf(c)' : c \in kids}
                sps == {sg.splitters[i] : i \in 1 .. Len(sg.splitters)}
            IN  /\ Cardinality(ranges) = Cardinality(kids)
                /\ Cardinality(sps) = Len(sg.splitters)
                /\ sps \subseteq ranges
                /\ Cardinality(ranges \ sps) = 1
                /\ \A r \in ranges \ sps : \A q \in ranges :
                       q.end - q.begin <= r.end - r.begin
       /\ \A sg \in InFlight \cap InFlight' :
             OmittedElems(sg)' = OmittedElems(sg)
       /\ (pc = "scan" /\ rf.scan.k >= 0) =>
             rf.scan.successor.e \notin OmittedElems(rf.sg)]_vars

\* Refine scans a successor for a splitgroup whose parent has three
\* elements or more, two of them in the child left out.
C29Witness ==
    /\ pc = "scan" /\ rf.scan.k >= 0
    /\ Cardinality(OmittedElems(rf.sg)) >= 2
    /\ Len(rf.sg.splitters) = 1

\* The depth of a splitgroup: the length of the witness of its parent.
DepthOf(sg) == Len(blocks[sg.parent].witness)

\* C30: with witness recording the splitgroups are received in
\* non-decreasing depth: the one Refine receives is no less deep than the
\* one it received before, and the queue holds them by non-decreasing
\* depth, none less deep than the one being worked off.
C30DepthOrder ==
    [][isWitness =>
         /\ (splitgroups # <<>> /\ splitgroups' = Tail(splitgroups)
                /\ "sg" \in DOMAIN rf) =>
               DepthOf(rf.sg) <= DepthOf(Head(splitgroups))
         /\ \A i, j \in 1 .. Len(splitgroups) :
               i < j => DepthOf(splitgroups[i]) <= DepthOf(splitgroups[j])
         /\ (pc \in {"scan", "clean"} /\ splitgroups # <<>>) =>
               DepthOf(rf.sg) <= DepthOf(Head(splitgroups))]_vars

\* With witness recording a clean-up of the first Refine has sent a
\* splitgroup that is deeper than one that is still in the queue ahead of
\* it.
C30Witness ==
    /\ isWitness /\ call = 1 /\ pc = "clean"
    /\ \E i, j \in 1 .. Len(splitgroups) :
          i < j /\ DepthOf(splitgroups[i]) < DepthOf(splitgroups[j])

\* The slots of the splitter of the round the loop over the successors has
\* yet to read: those behind the slot of the successor it holds.
UnreadSlots ==
    IF pc = "scan" /\ rf.scan.k >= 0
    THEN LET sp == rf.sg.splitters[rf.s]
         IN  (sp.begin + rf.scan.k + 1) .. (sp.end - 1)
    ELSE {}

\* C31: the splitters are fixed before the splitting: a slot of the
\* splitter that the loop over the successors has yet to read holds, when
\* it is read, the value and the leaf handle it held when the splitgroup
\* was received, so no move of the round changes such a slot.
C31SplittersFixed ==
    [][(pc = "scan" /\ pc' = "scan") =>
          \A i \in UnreadSlots : partition'[i] = partition[i]]_vars

\* The values whose slot, by p.indices, lies in the slots lo .. hi-1.
ValuesIn(lo, hi) == {v \in Slots : lo <= indices[v] /\ indices[v] < hi}

\* The values in the slot range of node u.
ValuesOf(u) == ValuesIn(Range(blocks, u)[1], Range(blocks, u)[2])

\* C32: once a block record is an inner node its slot range and the set of
\* values in that range stay as they are, and the slot range of a splitter
\* of a splitgroup holds the same set of values for as long as the
\* splitgroup is there, from its making to its being worked off.
C32InnerRangeFixed ==
    [][/\ \A u \in Inner \cap Inner' :
             /\ Range(blocks, u)' = Range(blocks, u)
             /\ ValuesOf(u)' = ValuesOf(u)
       /\ \A sg \in InFlight \cap InFlight' :
             \A i \in 1 .. Len(sg.splitters) :
                ValuesIn(sg.splitters[i].begin, sg.splitters[i].end)'
                   = ValuesIn(sg.splitters[i].begin, sg.splitters[i].end)]_vars

\* Refine is in a splitter round that has moved a value inside the slots
\* of a splitter of a splitgroup that is there.
C32Witness ==
    /\ pc = "scan" /\ call = 1 /\ Inner # {}
    /\ \E sg \in InFlight : \E i \in SplitterSlots(sg) :
          partition[i].b \in RoundCreated

\* The handles the values carry: the active leaves.
ActiveLeaves == {LeafOf(v) : v \in Slots}

\* C33: when New has returned and when a splitter round of Refine is over,
\* following next from handle 0 to the 0 that ends the ring visits every
\* active leaf once, from right to left: handle 0 comes first and has
\* end = n, end decreases strictly along the ring and stays above 0, so
\* the ranges [end(next(b)), end(b)) tile the slots 0 .. n-1.
C33RingTiles ==
    (BetweenRounds \/ RoundDone) =>
        /\ ~WalkHangs(blocks, 0, 0)
        /\ Ring[1] = 0 /\ blocks[0].end = n
        /\ \A i \in 1 .. (Len(Ring) - 1) :
               blocks[Ring[i + 1]].end < blocks[Ring[i]].end
        /\ blocks[Ring[Len(Ring)]].end > 0
        /\ Leaves = ActiveLeaves

\* A splitter round of Refine that has put a new leaf into the ring is over
\* and the ring has three leaves or more.
C33Witness ==
    /\ RoundDone /\ RoundCreated # {} /\ Len(Ring) >= 3

\* Every value carries the handle of the ring leaf whose range holds its
\* slot.
TagsMatchRing ==
    /\ \A i \in Slots : partition[i].b \in Leaves /\ i \in SlotsOf(partition[i].b)
    /\ \A i, j \in 1 .. Len(Ring) : i # j => Ring[i] # Ring[j]

\* C34: when New has returned, after every move of Refine and when a
\* splitter round is over, the block handle stored in each slot is the ring
\* leaf whose range holds the slot, so that the slots of one handle are
\* contiguous and no two leaves of the ring have the same handle.
C34TagsMatchRing ==
    (BetweenRounds \/ RoundDone \/ (call = 1 /\ pc = "scan")) => TagsMatchRing

\* Refine has moved a value into a sub-block of two values or more.
C34Witness ==
    /\ call = 1 /\ pc = "scan"
    /\ \E h \in RoundCreated : BlockLen(blocks, h) >= 2

\* The states move is applied in: New has returned, or the first Refine
\* stands in its loop over the predecessors.
MoveStates == AfterNew \/ (call = 1 /\ pc = "scan")

\* The blocks reachable from block b by zero or more steps along next.
ReachableFrom(b) ==
    LET w == blockIndices(blocks, b, 0)
    IN  {w[x] : x \in 1 .. Len(w)}

\* move(i, target) from the present state does what it is to do: the
\* element of slot i ends tagged with target, the source block has lost one
\* element and target has gained one (nothing changes when they are the
\* same block), every other block has the length it had, and every other
\* value the handle it had.
MoveMoves(i, target) ==
    LET e == partition[i].e
        source == partition[i].b
        mv == move(partition, indices, blocks, i, target)
        tagOf(v) == mv.partition[mv.indices[v]].b
    IN  /\ ~mv.panic
        /\ mv.partition[mv.indices[e]].e = e
        /\ tagOf(e) = target
        /\ \A h \in Leaves :
               BlockLen(mv.blocks, h) =
                  BlockLen(blocks, h) - (IF h = source THEN 1 ELSE 0)
                                      + (IF h = target THEN 1 ELSE 0)
        /\ \A v \in Slots \ {e} : tagOf(v) = LeafOf(v)

\* C35: move(i, target) with target reachable from the block of the element
\* by zero or more steps along next ends with the element tagged target,
\* the source one shorter, the target one longer, every other block, those
\* passed through among them, as long as before, and no other value with
\* another handle.
C35MoveFrame ==
    MoveStates =>
        \A i \in Slots : \A target \in ReachableFrom(partition[i].b) :
            MoveMoves(i, target)

\* There is an element with a block two steps or more along next from its
\* own, so that move to it passes through a block.
C35Witness ==
    /\ call = 1 /\ pc = "scan" /\ RoundCreated # {}
    /\ \E i \in Slots : Cardinality(ReachableFrom(partition[i].b)) >= 3

\* The inner nodes whose range is all of the slots.
Roots == {u \in Inner : SlotsOf(u) = Slots}

\* The class functions that do not give every value the same class.
Splitting == {j \in 0 .. (Len(classes) - 1) :
                 \E v, u \in Slots : classes[j + 1][v] # classes[j + 1][u]}

\* C36: the root of the splitting tree, the inner node whose range is all
\* the slots, has the empty witness when New has returned and when Refine
\* has returned.
C36RootWitnessEmpty ==
    (AfterNew \/ AfterRefine) => \A u \in Roots : blocks[u].witness = <<>>

\* C36 as the code has it: when New has returned and when Refine has
\* returned there is a root exactly when some class function splits the
\* universe; it is the first inner node made, and its witness is <<j>> for
\* the first such class function j with witness recording and empty
\* without.
C36RootWitness ==
    (AfterNew \/ AfterRefine) =>
        IF Splitting = {} THEN Inner = {}
        ELSE LET j == CHOOSE x \in Splitting : \A y \in Splitting : x <= y
             IN  /\ Roots = {inner[1]}
                 /\ blocks[inner[1]].witness = IF isWitness THEN <<j>> ELSE <<>>

\* Refine has returned with witness recording on a tree whose root was made
\* by the second class function and has inner nodes below it.
C36Witness ==
    /\ AfterRefine /\ isWitness /\ Len(inner) >= 2
    /\ blocks[inner[1]].witness = <<1>>

\* New stands between two passes or has returned: the passes of the class
\* functions 0 .. class-1 are over and no goroutine of a pass is running.
PassesDone == (pc = "New" /\ HandedOut = {} /\ class >= 1) \/ AfterNew

\* v and u were in one block when the last pass that is over began: they
\* have the same class under every class function before its own.
SplitTogether(v, u) ==
    \A j \in 1 .. (class - 1) : classes[j][v] = classes[j][u]

\* C37: the sub-blocks split makes of a block lie in the order of their
\* classes from the lowest slots to the highest: of two values of the block
\* the one of the lower class has the lower slot.
C37ClassOrderAscending ==
    PassesDone =>
        \A v, u \in Slots :
            (SplitTogether(v, u) /\ classes[class][v] < classes[class][u])
                => indices[v] < indices[u]

\* C37 as the code has it: the sub-blocks split makes of a block lie in the
\* order of their classes from the highest slots to the lowest: of two
\* values of the block the one of the lower class has the higher slot, and
\* the lowest class that has a value keeps the handle of the block.
C37ClassOrderDescending ==
    PassesDone =>
        \A v, u \in Slots :
            (SplitTogether(v, u) /\ classes[class][v] < classes[class][u])
                => /\ indices[v] > indices[u]
                   /\ blocks[LeafOf(v)].end > blocks[LeafOf(u)].end

\* New has returned after a second pass in which split has divided a block
\* the first pass had made.
C37Witness ==
    /\ AfterNew /\ class = 2 /\ Len(Ring) >= 3
    /\ \E v, u \in Slots :
          SplitTogether(v, u) /\ classes[class][v] < classes[class][u]

\* v and u are in different leaves.
Apart(v, u) == LeafOf(v) # LeafOf(u)

\* The first Refine is inside a splitter round: the maps of the round hold
\* the sub-blocks it has made so far.
InRound == call = 1 /\ pc \in {"scan", "clean"}

\* The block of the start of the round that handle h comes from: h itself,
\* or the block whose map gave h out, followed back as far as it goes.
RECURSIVE RoundRoot(_)
RoundRoot(h) ==
    IF h \in RoundCreated
    THEN RoundRoot(CHOOSE c \in DOMAIN rf.subblock : h \in RoundSubblocks(c))
    ELSE h

\* The blocks of the pass of New whose goroutine is inside the write loop of
\* split, some of the classes written and some not.
MidSplit == {b \in HandedOut : pc = "New" /\ gor[b].pc = "split"}

\* The block a value was in when the round it is moved in started, or when
\* the call of split that is writing its block started; else its leaf.
StartRoot(v) ==
    IF InRound THEN RoundRoot(LeafOf(v))
    ELSE IF \E b \in MidSplit : indices[v] \in Territory(b)
         THEN CHOOSE b \in MidSplit : indices[v] \in Territory(b)
         ELSE LeafOf(v)

\* C39: refinement is monotone at every step of New and Refine: two values
\* that are in different leaves are in different leaves after the step, and
\* the step does not lower the number of leaves.
C39StepMonotone ==
    [][/\ \A v, u \in Slots : Apart(v, u) => Apart(v, u)'
       /\ Len(Ring)' >= Len(Ring)]_vars

\* C39 as the code has it: refinement is monotone from round to round.  Two
\* values that were in different blocks when a splitter round or a call of
\* split started (in different leaves, outside both) stay so after every
\* step, and no step lowers the number of leaves; inside a round or a call
\* of split two values of one block may be in different leaves for some
\* steps and in one leaf again.
C39RoundMonotone ==
    [][/\ \A v, u \in Slots :
             StartRoot(v) # StartRoot(u) => (StartRoot(v) # StartRoot(u))'
       /\ Len(Ring)' >= Len(Ring)]_vars

\* The first Refine has returned, having told apart two values New had left
\* in one leaf, next to two values New had told apart.
C39Witness ==
    /\ AfterRefine
    /\ \E v, u \in Slots : SameClasses(v, u) /\ Apart(v, u)
    /\ \E v, u \in Slots : ~SameClasses(v, u) /\ Apart(v, u)

\* The step receives a handle from available: the head of the open channel,
\* or the zero value of the closed and drained one, which shows in the inner
\* node or the leaf the step makes with it.
Acquires ==
    \/ available # <<>> /\ available' = Tail(available)
    \/ available = <<>> /\ closed /\ (inner' # inner \/ count' # count)

\* The handles in use: the leaves of the ring and the inner nodes.
Live == Leaves \cup Inner

\* C40: no handle is allocated twice while live: a handle received from
\* available by split, subblockFunction or makeParent is not handle 0 and is
\* not the handle of a leaf of the ring or of an inner node, and no handle
\* of an inner node is in the pool after any step.
C40FreshHandles ==
    [][/\ Acquires => Received \notin ({0} \cup Live)
       /\ \A i \in 1 .. Len(available') : available'[i] \notin Inner']_vars

\* A splitter round of Refine is over: split, subblockFunction and
\* makeParent have received handles, one of them after the clean-up had put
\* a handle back into the pool.
C40Witness ==
    /\ RoundDone /\ RoundCreated # {}
    /\ Len(inner) >= 2 /\ Len(Ring) >= 3
    /\ available # <<>>
    /\ available[Len(available)] \notin DOMAIN InitialPool
    /\ 0 \notin DOMAIN rf.siblings \/ rf.siblings[0] # <<>>

====
